---- MODULE Spec2Model ----
(***************************************************************************)
(* woof-rs (src/src/main.rs): a single-transfer file server.  In send mode *)
(* it serves one file, or an archive built from several paths, to the      *)
(* first `GET / HTTP/1.1`; in receive mode it stores one multipart upload. *)
(*                                                                         *)
(* Every string and byte buffer of the program is a sequence of one-       *)
(* character strings, so that lengths, splits and joins are computed as    *)
(* the code computes them.                                                 *)
(***************************************************************************)
EXTENDS Integers, Sequences, FiniteSets, TLC

(***************************************************************************)
(* Bounds of the model.                                                    *)
(***************************************************************************)
\* longest list of command-line paths
MaxPaths == 2
\* longest content of the file "r" that is served directly
MaxFileLen == 3
\* connections the listener hands out before the model stops accepting
MaxConns == 2
\* longest upload payload
MaxPayload == 2
\* capacity of the BufReader of main.rs:52 (32 * 1024 there), scaled down so
\* that files of 0, 1, BUF_SIZE and BUF_SIZE + 1 bytes are all within reach
BUF_SIZE == 2
\* width of usize in bits (64 on the usual targets), scaled down
USIZE_BITS == 12

USIZE_MOD == 2 ^ USIZE_BITS
ISIZE_MAX == 2 ^ (USIZE_BITS - 1) - 1

(***************************************************************************)
(* String literals of the source.                                          *)
(***************************************************************************)
CRLF == <<"\r", "\n">>
TEMP_FILE == <<"w", "o", "o", "f", "-", "r", "s">>
OK_200 == <<"H", "T", "T", "P", "/", "1", ".", "1", " ", "2", "0", "0", " ", "O", "K">>
GET_LINE == <<"G", "E", "T", " ", "/", " ", "H", "T", "T", "P", "/", "1", ".", "1", "\r", "\n">>
POST_LINE == <<"P", "O", "S", "T", " ", "/", " ", "H", "T", "T", "P", "/", "1", ".", "1", "\r", "\n">>
CONTENT_TYPE_OCTET == <<"C", "o", "n", "t", "e", "n", "t", "-", "T", "y", "p", "e", ":", " ", "a", "p", "p", "l", "i", "c", "a", "t", "i", "o", "n", "/", "o", "c", "t", "e", "t", "-", "s", "t", "r", "e", "a", "m">>
CONTENT_DISPOSITION_ATTACHMENT == <<"C", "o", "n", "t", "e", "n", "t", "-", "D", "i", "s", "p", "o", "s", "i", "t", "i", "o", "n", ":", " ", "a", "t", "t", "a", "c", "h", "m", "e", "n", "t", ";", " ", "f", "i", "l", "e", "n", "a", "m", "e", "=", "\"">>
CONTENT_LENGTH == <<"C", "o", "n", "t", "e", "n", "t", "-", "L", "e", "n", "g", "t", "h">>
CONTENT_TYPE == <<"C", "o", "n", "t", "e", "n", "t", "-", "T", "y", "p", "e">>
CONTENT_DISPOSITION == <<"C", "o", "n", "t", "e", "n", "t", "-", "D", "i", "s", "p", "o", "s", "i", "t", "i", "o", "n">>
TAR_GZ == <<".", "t", "a", "r", ".", "g", "z">>
ZIP == <<".", "z", "i", "p">>

(***************************************************************************)
(* str and slice methods of the standard library, as the code uses them.   *)
(***************************************************************************)
Digits == <<"0", "1", "2", "3", "4", "5", "6", "7", "8", "9">>
Whitespace == {" ", "\t", "\r", "\n"}

\* s[from..]
Drop(s, n) == SubSeq(s, n + 1, Len(s))

\* str::starts_with
starts_with(s, p) == Len(s) >= Len(p) /\ SubSeq(s, 1, Len(p)) = p

\* position of the first / last occurrence of the character c in s, 0 if none
FirstIndex(s, c) ==
    IF \E i \in 1..Len(s) : s[i] = c
    THEN CHOOSE i \in 1..Len(s) : s[i] = c /\ \A j \in 1..(i - 1) : s[j] # c
    ELSE 0
LastIndex(s, c) ==
    IF \E i \in 1..Len(s) : s[i] = c
    THEN CHOOSE i \in 1..Len(s) : s[i] = c /\ \A j \in (i + 1)..Len(s) : s[j] # c
    ELSE 0

\* s.split(c).last().unwrap(): what follows the last c, all of s if there is none
split_last(s, c) == Drop(s, LastIndex(s, c))

\* str::trim and str::trim_matches: strip the characters of cs at both ends
trim_set(s, cs) ==
    IF \A i \in 1..Len(s) : s[i] \in cs
    THEN <<>>
    ELSE LET a == CHOOSE i \in 1..Len(s) : s[i] \notin cs /\ \A j \in 1..(i - 1) : s[j] \in cs
             b == CHOOSE i \in 1..Len(s) : s[i] \notin cs /\ \A j \in (i + 1)..Len(s) : s[j] \in cs
         IN  SubSeq(s, a, b)
trim(s) == trim_set(s, Whitespace)
trim_matches(s, c) == trim_set(s, {c})

\* str::parse::<usize>: the decimal value, or -1 for Err (empty, a character
\* that is no digit, or a value that does not fit usize)
RECURSIVE DecimalValue(_)
DecimalValue(s) ==
    IF s = <<>> THEN 0
    ELSE 10 * DecimalValue(SubSeq(s, 1, Len(s) - 1))
         + (CHOOSE d \in 0..9 : Digits[d + 1] = s[Len(s)])
parse(s) ==
    IF s = <<>> \/ \E i \in 1..Len(s) : \A d \in 1..10 : Digits[d] # s[i]
    THEN -1
    ELSE IF DecimalValue(s) >= USIZE_MOD THEN -1 ELSE DecimalValue(s)

\* usize::to_string / {i} in format!
RECURSIVE to_string(_)
to_string(n) ==
    IF n < 10 THEN <<Digits[n + 1]>>
    ELSE to_string(n \div 10) \o <<Digits[(n % 10) + 1]>>

\* [String]::join
RECURSIVE join(_, _)
join(parts, sep) ==
    IF parts = <<>> THEN <<>>
    ELSE IF Len(parts) = 1 THEN parts[1]
    ELSE parts[1] \o sep \o join(Tail(parts), sep)

\* stands for the byte 0xFF, which no UTF-8 text holds
BYTE_FF == "#"
\* str::from_utf8 succeeds
is_utf8(bytes) == \A k \in 1..Len(bytes) : bytes[k] # BYTE_FF

\* BufRead::read_line: the bytes up to and including the first "\n", or all
\* that is left when the peer closed the connection first
read_line(rest) ==
    IF FirstIndex(rest, "\n") = 0 THEN rest ELSE SubSeq(rest, 1, FirstIndex(rest, "\n"))

\* one item of BufRead::lines: the line without its "\n" or "\r\n"
strip_newline(line) ==
    IF Len(line) >= 2 /\ SubSeq(line, Len(line) - 1, Len(line)) = CRLF
    THEN SubSeq(line, 1, Len(line) - 2)
    ELSE IF Len(line) >= 1 /\ line[Len(line)] = "\n"
    THEN SubSeq(line, 1, Len(line) - 1)
    ELSE line

(***************************************************************************)
(* The file system.  A disk is a function from the paths of the regular    *)
(* files to their bytes; the directories are fixed.                        *)
(***************************************************************************)
P_FILE == <<"r">>
P_DIR == <<"a">>
P_CHILD == <<"a", "/", "r">>
P_MISSING == <<"m">>
\* a file whose name holds an equals sign
P_EQUALS == <<"a", "=", "b">>
\* the paths the command line is drawn from: a file, a directory, a missing path
PathPool == {P_FILE, P_DIR, P_MISSING}
Dirs == {P_DIR}

FileBytes == <<"x", "y", "z", "w", "v">>
CHILD_BYTES == <<"c">>

\* the disk before the program starts: "r" holds n bytes, "a/r" and "a=b" one byte
InitialDisk(n) ==
    (P_FILE :> SubSeq(FileBytes, 1, n)) @@ (P_CHILD :> CHILD_BYTES)
    @@ (P_EQUALS :> CHILD_BYTES)

\* Path::is_file, Path::is_dir, Path::exists
is_file(d, p) == p \in DOMAIN d
is_dir(p) == p \in Dirs
exists(d, p) == is_file(d, p) \/ is_dir(p)

\* Path::file_name: the last component
file_name(p) == split_last(p, "/")

\* File::create: the file exists afterwards and is empty until written
create(d, p, bytes) == (p :> bytes) @@ d
\* fs::remove_file
remove_file(d, p) == [q \in DOMAIN d \ {p} |-> d[q]]

RECURSIVE SetToSeq(_)
SetToSeq(S) ==
    IF S = {} THEN <<>>
    ELSE LET x == CHOOSE y \in S : TRUE IN <<x>> \o SetToSeq(S \ {x})

\* WalkDir::new(path), Builder::append_dir_all: the regular files below path
walk(d, p) == SetToSeq({q \in DOMAIN d : starts_with(q, p \o <<"/">>)})

(***************************************************************************)
(* archive (main.rs:300-396).  An entry is [name, dir, data]; the bytes of *)
(* the container stand for what the tar/zip writer emits: a tag for the    *)
(* encoding, then every entry's name and data.                             *)
(***************************************************************************)
Encodings == {"Tgz", "Zip"}

\* entries whose directory names count the positions from 1
path_entries_from_one(d, path, i) ==
    LET p == file_name(path)
        dirname == p \o <<"-">> \o to_string(i + 1)
        below == walk(d, path)
    IN  IF is_file(d, path)
        THEN <<[name |-> p, dir |-> FALSE, data |-> d[path]]>>
        ELSE IF is_dir(path)
        THEN <<[name |-> dirname, dir |-> TRUE, data |-> <<>>]>>
             \o [k \in 1..Len(below) |->
                    [name |-> dirname \o <<"/">> \o Drop(below[k], Len(path) + 1),
                     dir |-> FALSE, data |-> d[below[k]]]]
        ELSE <<>>

\* the entries the i-th path adds (i counts from 0, as enumerate() does)
path_entries(d, path, i) ==
    LET p == file_name(path)
        dirname == p \o <<"-">> \o to_string(i)
        below == walk(d, path)
    IN  IF is_file(d, path)
        THEN <<[name |-> p, dir |-> FALSE, data |-> d[path]]>>
        ELSE IF is_dir(path)
        THEN <<[name |-> dirname, dir |-> TRUE, data |-> <<>>]>>
             \o [k \in 1..Len(below) |->
                    [name |-> dirname \o <<"/">> \o Drop(below[k], Len(path) + 1),
                     dir |-> FALSE, data |-> d[below[k]]]]
        ELSE <<>>

RECURSIVE archive_entries(_, _, _)
archive_entries(d, paths, n) ==
    IF n = 0 THEN <<>>
    ELSE archive_entries(d, paths, n - 1) \o path_entries(d, paths[n], n - 1)

archive_has_files(d, paths) ==
    \E i \in 1..Len(paths) : is_file(d, paths[i]) \/ is_dir(paths[i])

RECURSIVE container_bytes(_)
container_bytes(entries) ==
    IF entries = <<>> THEN <<>>
    ELSE entries[1].name \o <<":">> \o entries[1].data \o <<";">>
         \o container_bytes(Tail(entries))

\* fail: "none", "create" (File::create fails, line 302) or "entry" (opening
\* or appending an entry fails, lines 315-322 and 347-374).
\* outcome: "ok" (Ok(has_files)), "err" (Err) or "exit" (process::exit(-1)).
archive(temp_file, enc, paths, d, fail) ==
    LET created == create(d, temp_file, <<>>)
        has_files == archive_has_files(created, paths)
    IN  IF fail = "create"
        THEN [outcome |-> "err", has_files |-> FALSE, disk |-> d]
        ELSE IF fail = "entry" /\ has_files
        THEN [outcome |-> "err", has_files |-> TRUE, disk |-> created]
        ELSE IF ~has_files
        THEN [outcome |-> "exit", has_files |-> FALSE,
              disk |-> remove_file(created, temp_file)]
        ELSE [outcome |-> "ok", has_files |-> TRUE,
              disk |-> create(d, temp_file,
                              <<IF enc = "Tgz" THEN "T" ELSE "Z">>
                              \o container_bytes(archive_entries(created, paths, Len(paths))))]

(***************************************************************************)
(* prepare_file (main.rs:258-296).                                         *)
(* outcome: "return", "exit" (process::exit(-1)) or "panic" (the unwrap of *)
(* archive's Err); archived tells whether archive was called.              *)
(***************************************************************************)
temp_file_name(encoding) ==
    IF encoding = "Tgz" THEN TEMP_FILE \o TAR_GZ ELSE TEMP_FILE \o ZIP

\* a prepare_file that serves the first path whenever it is a file, however many
\* paths were given
prepare_file_first_file(encoding, paths, d, fail) ==
    LET temp_file == temp_file_name(encoding)
        a == archive(temp_file, encoding, paths, d, fail)
    IN  IF Len(paths) = 0
        THEN [outcome |-> "exit", f_name |-> <<>>, is_archive |-> FALSE,
              disk |-> d, archived |-> FALSE]
        ELSE IF is_file(d, paths[1])
        THEN [outcome |-> "return", f_name |-> paths[1], is_archive |-> FALSE,
              disk |-> d, archived |-> FALSE]
        ELSE IF Len(paths) > 1 \/ is_dir(paths[1])
        THEN [outcome |-> CASE a.outcome = "ok" -> "return"
                            [] a.outcome = "err" -> "panic"
                            [] a.outcome = "exit" -> "exit",
              f_name |-> temp_file, is_archive |-> a.has_files,
              disk |-> a.disk, archived |-> TRUE]
        ELSE [outcome |-> "exit", f_name |-> <<>>, is_archive |-> FALSE,
              disk |-> d, archived |-> FALSE]

prepare_file(encoding, paths, d, fail) ==
    LET temp_file == temp_file_name(encoding)
        a == archive(temp_file, encoding, paths, d, fail)
    IN  IF Len(paths) = 0
        THEN [outcome |-> "exit", f_name |-> <<>>, is_archive |-> FALSE,
              disk |-> d, archived |-> FALSE]
        ELSE IF Len(paths) = 1 /\ is_file(d, paths[1])
        THEN [outcome |-> "return", f_name |-> paths[1], is_archive |-> FALSE,
              disk |-> d, archived |-> FALSE]
        ELSE IF Len(paths) > 1 \/ is_dir(paths[1])
        THEN [outcome |-> CASE a.outcome = "ok" -> "return"
                            [] a.outcome = "err" -> "panic"
                            [] a.outcome = "exit" -> "exit",
              f_name |-> temp_file, is_archive |-> a.has_files,
              disk |-> a.disk, archived |-> TRUE]
        ELSE [outcome |-> "exit", f_name |-> <<>>, is_archive |-> FALSE,
              disk |-> d, archived |-> FALSE]

(***************************************************************************)
(* What a peer can send on one connection.  A request is the bytes put on  *)
(* the wire and, for the properties, what the peer meant by them.          *)
(***************************************************************************)
\* ': form-data; name="f"; filename="', ': multipart/form-data; boundary=' and a
\* part's 'Content-Type: a/b'
FORM_DATA == <<":", " ", "f", "o", "r", "m", "-", "d", "a", "t", "a", ";", " ", "n", "a", "m", "e", "=", "\"", "f", "\"", ";", " ", "f", "i", "l", "e", "n", "a", "m", "e", "=", "\"">>
MULTIPART == <<":", " ", "m", "u", "l", "t", "i", "p", "a", "r", "t", "/", "f", "o", "r", "m", "-", "d", "a", "t", "a", ";", " ", "b", "o", "u", "n", "d", "a", "r", "y", "=">>
PART_TYPE == <<"C", "o", "n", "t", "e", "n", "t", "-", "T", "y", "p", "e", ":", " ", "a", "/", "b">>
HEAD_LINE == <<"H", "E", "A", "D", " ", "/", " ", "H", "T", "T", "P", "/", "1", ".", "1", "\r", "\n">>
GET_PATH_LINE == <<"G", "E", "T", " ", "/", "x", " ", "H", "T", "T", "P", "/", "1", ".", "1", "\r", "\n">>
\* a first line that is not text, as a TLS handshake sent to the port is
BINARY_LINE == <<BYTE_FF, "\r", "\n">>
GET_LF_LINE == <<"G", "E", "T", " ", "/", " ", "H", "T", "T", "P", "/", "1", ".", "1", "\n">>

BAD_BOUNDARY == <<"X">>
BAD_NAME == <<"p">>
Boundaries == {BAD_BOUNDARY, <<"-", "-", "B", "d">>}
FileNames == {P_FILE, BAD_NAME, P_EQUALS}
PayloadBytes == <<"\r", "\n", "-", "-", "q">>
Payloads == {SubSeq(PayloadBytes, 1, n) : n \in 0..MaxPayload}

\* the MIME part's header lines: Content-Disposition, then (more) Content-Type
part_header_bytes(fname, more) ==
    CONTENT_DISPOSITION \o FORM_DATA \o fname \o <<"\"">> \o CRLF
    \o (IF more THEN PART_TYPE \o CRLF ELSE <<>>)

\* the body the comment of main.rs:151-163 describes
multipart_body(b, fname, more, payload) ==
    <<"-", "-">> \o b \o CRLF
    \o part_header_bytes(fname, more)
    \o CRLF
    \o payload \o CRLF
    \o <<"-", "-">> \o b \o <<"-", "-">> \o CRLF

\* a POST with the declared Content-Length text cl, boundary b and this body
post_bytes(cl, b, body) ==
    POST_LINE
    \o CONTENT_TYPE \o MULTIPART \o b \o CRLF
    \o (IF cl = <<>> THEN <<>> ELSE CONTENT_LENGTH \o <<":", " ">> \o cl \o CRLF)
    \o CRLF
    \o body

Request(kind, bytes, b, fname, more, payload) ==
    [kind |-> kind, bytes |-> bytes, boundary |-> b, fname |-> fname,
     more |-> more, payload |-> payload]
\* what the properties keep of a request
Meant(r) ==
    [kind |-> r.kind, boundary |-> r.boundary, fname |-> r.fname,
     more |-> r.more, payload |-> r.payload]

\* a well-formed upload: the Content-Length is the length of the body
Upload(b, fname, more, payload) ==
    Request("upload",
            post_bytes(to_string(Len(multipart_body(b, fname, more, payload))), b,
                       multipart_body(b, fname, more, payload)),
            b, fname, more, payload)

WellFormedUploads ==
    {Upload(b, fname, TRUE, payload) :
        b \in Boundaries, fname \in FileNames, payload \in Payloads}
    \cup {Upload(BAD_BOUNDARY, BAD_NAME, FALSE, payload) : payload \in Payloads}

\* uploads that are not well-formed, all built on one body
BadBody == multipart_body(BAD_BOUNDARY, BAD_NAME, TRUE, SubSeq(PayloadBytes, 1, MaxPayload))
BadUpload(kind, cl, body) ==
    Request(kind, post_bytes(cl, BAD_BOUNDARY, body), BAD_BOUNDARY, BAD_NAME, TRUE,
            SubSeq(PayloadBytes, 1, MaxPayload))
\* the bytes the part loop consumes from BadBody: boundary line, headers, empty line
BadConsumed == 2 + Len(BAD_BOUNDARY) + 2 + Len(part_header_bytes(BAD_NAME, TRUE)) + 2

MalformedUploads ==
    { BadUpload("zero_length", <<"0">>, BadBody),
      BadUpload("no_length", <<>>, BadBody),
      BadUpload("not_a_number", <<"x">>, BadBody),
      \* declared shorter than what the part headers alone take
      BadUpload("too_short", <<"1">>, BadBody),
      \* declared one byte short of headers + boundary + 8
      BadUpload("too_short", to_string(BadConsumed + Len(BAD_BOUNDARY) + 7), BadBody),
      \* the peer closes one byte before the end of the payload
      BadUpload("short_read", to_string(Len(BadBody)),
                SubSeq(BadBody, 1, BadConsumed + MaxPayload - 1)),
      \* the peer closes before the empty line that ends the part headers
      BadUpload("truncated", to_string(Len(BadBody)), SubSeq(BadBody, 1, BadConsumed - 2)) }

NoFields(kind, bytes) == Request(kind, bytes, <<>>, <<>>, FALSE, <<>>)
OtherRequests ==
    { NoFields("get", GET_LINE \o CRLF),
      NoFields("other", HEAD_LINE \o CRLF),
      NoFields("other", GET_PATH_LINE \o CRLF),
      NoFields("other", GET_LF_LINE \o <<"\n">>),
      NoFields("other", <<>>),
      NoFields("binary", BINARY_LINE) }

Requests == WellFormedUploads \cup MalformedUploads \cup OtherRequests

(***************************************************************************)
(* The pieces of main's loop body (main.rs:88-230) that compute something. *)
(***************************************************************************)
\* lib/send.html and lib/received.html, the pages include_bytes! embeds
send_html == <<"<", "f", "o", "r", "m", ">">>
received_html == <<"{", "f", "i", "l", "e", "n", "a", "m", "e", "}", " ", "{", "b", "y", "t", "e", "s", "}">>
PH_FILENAME == <<"{", "f", "i", "l", "e", "n", "a", "m", "e", "}">>
PH_BYTES == <<"{", "b", "y", "t", "e", "s", "}">>

\* the response head of main.rs:64-86
response_headers(r, name) ==
    <<OK_200>>
    \o (IF r THEN <<>>
        ELSE <<CONTENT_TYPE_OCTET, CONTENT_DISPOSITION_ATTACHMENT \o name \o <<"\"">>>>)
    \o <<CRLF>>

\* a reader that hands out everything that is left at once
fill_buf_whole(f) == f
\* BufReader::fill_buf on the artifact (main.rs:107): at most BUF_SIZE bytes
fill_buf(f) == SubSeq(f, 1, IF Len(f) < BUF_SIZE THEN Len(f) ELSE BUF_SIZE)
\* a consume that advances one byte too far
consume_off_by_one(f, length) == Drop(f, length + 1)
\* BufReader::consume (main.rs:113)
consume(f, length) == Drop(f, length)

\* zip_add_file (main.rs:398-411): the same loop, run to its end; the result is
\* what was written to the zip entry
RECURSIVE zip_add_file(_, _)
zip_add_file(f_reader, zip) ==
    LET buf == fill_buf(f_reader)
        length == Len(buf)
    IN  IF length = 0 THEN zip
        ELSE zip_add_file(consume(f_reader, length), zip \o buf)

\* a loop without the break after the artifact is sent
after_send_loops == "incoming"
\* where the loop goes after the artifact is sent (main.rs:116-117: break)
after_send == "cleanup"
\* an upload that answers as soon as the file is created
after_create_responds == "post_respond"
\* what follows File::create (main.rs:207-208): write_all
after_create == "post_write_all"
\* where the loop goes after the receipt is sent (main.rs:228: break)
after_receipt == "cleanup"

\* request.by_ref().lines().map(unwrap).take_while(non-empty).collect()
\* (main.rs:122-127): the header lines, and what is left unread
RECURSIVE take_headers(_, _)
take_headers(rest, acc) ==
    IF rest = <<>> THEN [lines |-> acc, rest |-> rest]
    ELSE LET raw == read_line(rest)
             line == strip_newline(raw)
         IN  IF line = <<>>
             THEN [lines |-> acc, rest |-> Drop(rest, Len(raw))]
             ELSE take_headers(Drop(rest, Len(raw)), Append(acc, line))

\* a parse that finds a length of one byte whatever the headers say
header_content_length_one(lines) == 1
\* main.rs:130-135: the last Content-Length line decides; 0 without one,
\* -1 when a parse fails (the unwrap panics)
header_content_length(lines) ==
    LET hits == {i \in 1..Len(lines) : starts_with(lines[i], CONTENT_LENGTH)}
        value(i) == parse(trim(split_last(lines[i], ":")))
    IN  IF hits = {} THEN 0
        ELSE IF \E i \in hits : value(i) = -1 THEN -1
        ELSE value(CHOOSE i \in hits : \A j \in hits : j <= i)

\* main.rs:131,136-145: the last Content-Type line decides; "" without one
header_boundary(lines) ==
    LET hits == {i \in 1..Len(lines) : starts_with(lines[i], CONTENT_TYPE)}
        value(i) == split_last(trim(split_last(lines[i], ";")), "=")
    IN  IF hits = {} THEN <<>>
        ELSE value(CHOOSE i \in hits : \A j \in hits : j <= i)

\* main.rs:173-182
disposition_filename(line) ==
    trim_matches(split_last(trim(split_last(line, ";")), "="), "\"")

\* the loop of main.rs:165-188.  At end of input read_line returns 0 bytes and
\* an empty line, which is not "\r\n": the loop then spins for ever (hang).
RECURSIVE part_loop(_, _, _)
part_loop(rest, fname, consumed) ==
    LET line == read_line(rest)
        fname2 == IF starts_with(line, CONTENT_DISPOSITION)
                  THEN disposition_filename(line) ELSE fname
    IN  IF line = <<>>
        THEN [hang |-> TRUE, filename |-> fname, bytes_consumed |-> consumed, rest |-> rest]
        ELSE IF line = CRLF
        THEN [hang |-> FALSE, filename |-> fname2,
              bytes_consumed |-> consumed + Len(line), rest |-> Drop(rest, Len(line))]
        ELSE part_loop(Drop(rest, Len(line)), fname2, consumed + Len(line))

\* main.rs:198, in the integers: negative when the usize subtraction overflows
payload_length(cl, consumed, b) == cl - consumed - Len(b) - 8

\* replace (main.rs:243-256), from position i (counted from 0) on
RECURSIVE replace_at(_, _, _, _)
replace_at(source, from, to, i) ==
    IF i + Len(from) > Len(source) THEN source
    ELSE IF starts_with(Drop(source, i), from)
    THEN replace_at(SubSeq(source, 1, i) \o to \o Drop(source, i + Len(from)),
                    from, to, i + Len(to))
    ELSE replace_at(source, from, to, i + 1)
replace(source, from, to) == replace_at(source, from, to, 0)

\* main.rs:214-226: status line, empty line, the receipt page
receipt_bytes(fname, size) ==
    OK_200 \o CRLF \o CRLF
    \o replace(replace(received_html, PH_FILENAME, fname), PH_BYTES, to_string(size))

\* an upload written without looking for an existing file
upload_always(d, f_path) == TRUE
\* main.rs:203-204: the upload is written only when nothing has that name
upload_allowed(d, f_path) == ~exists(d, f_path)

\* a read that is content with the bytes that came
read_some(rest, n) ==
    IF Len(rest) < n
    THEN [ok |-> TRUE, buf |-> rest, rest |-> <<>>]
    ELSE [ok |-> TRUE, buf |-> SubSeq(rest, 1, n), rest |-> Drop(rest, n)]
\* Read::read_exact into a buffer of n bytes (main.rs:200): Err(UnexpectedEof)
\* when the connection ends before n bytes came
read_exact(rest, n) ==
    IF Len(rest) < n
    THEN [ok |-> FALSE, buf |-> <<>>, rest |-> <<>>]
    ELSE [ok |-> TRUE, buf |-> SubSeq(rest, 1, n), rest |-> Drop(rest, n)]

\* main.rs:233: whether cleanup removes the artifact
cleanup_removes(archive_flag) == archive_flag

(***************************************************************************)
(* The program: main (main.rs:55-238) as a state machine.                  *)
(***************************************************************************)
VARIABLES
    pc,             \* where main is
    status,         \* how the process ended: "ok", "err", "fatal", "panic"
    recv, enc, paths,   \* cli.recv, cli.enc, cli.paths
    disk,           \* the file system
    disk0,          \* the file system when the process started
    bound,          \* the listener is bound
    headers, f_name, is_archive,    \* main's locals of the same names
    archived,       \* archive was called
    accepted,       \* connections accepted so far
    req,            \* what the peer of the current connection sent
    stream,         \* bytes of the connection not yet read
    sock,           \* bytes written to the connection
    start_line, content_length, boundary, filename, bytes_consumed, filesize, buffer,
    f_buf,          \* bytes of the opened artifact not yet consumed
    exchanged,      \* "served" after line 117, "received" after line 228
    removed,        \* calls of remove_file on the artifact at cleanup
    uploaded,       \* paths created by File::create at line 207
    i, has_files,   \* archive's locals of the same names
    container       \* the entries archive has appended to `tar` or `zip`

cli == <<recv, enc, paths, disk0>>
prep == <<headers, f_name, is_archive, archived>>
conn == <<req, stream, sock, start_line>>
post == <<content_length, boundary, filename, bytes_consumed, filesize, buffer>>
arch == <<i, has_files, container>>
vars == <<pc, status, cli, disk, bound, prep, accepted, conn, post, f_buf,
          exchanged, removed, uploaded, arch>>

PathLists == UNION {[1..n -> PathPool] : n \in 0..MaxPaths}
NoRequest == Meant(NoFields("none", <<>>))

Init ==
    /\ pc = "bind"
    /\ status = "running"
    /\ recv \in BOOLEAN
    /\ enc \in Encodings
    /\ paths \in PathLists
    \* receive mode never looks at the paths or the encoding
    /\ recv => (paths = <<>> /\ enc = "Tgz")
    /\ \E n \in 0..MaxFileLen : disk0 = InitialDisk(n)
    /\ disk = disk0
    /\ bound = FALSE
    /\ headers = <<>>
    /\ f_name = <<>>
    /\ is_archive = FALSE
    /\ archived = FALSE
    /\ accepted = 0
    /\ req = NoRequest
    /\ stream = <<>>
    /\ sock = <<>>
    /\ start_line = <<>>
    /\ content_length = 0
    /\ boundary = <<>>
    /\ filename = <<>>
    /\ bytes_consumed = 0
    /\ filesize = 0
    /\ buffer = <<>>
    /\ f_buf = <<>>
    /\ exchanged = "none"
    /\ removed = 0
    /\ uploaded = {}
    /\ i = 0
    /\ has_files = FALSE
    /\ container = <<>>

\* main returns Err through `?`, panics, or calls process::exit
Exit(how) == pc' = "exited" /\ status' = how

\* main.rs:230: the loop body ends without a break; the reader and the
\* request line go out of scope
EndOfIteration == req' = NoRequest /\ stream' = <<>> /\ start_line' = <<>>

\* main.rs:60-62
Bind ==
    /\ pc = "bind"
    /\ \/ bound' = TRUE /\ pc' = "prepare" /\ UNCHANGED status
       \/ Exit("err") /\ UNCHANGED bound
    /\ UNCHANGED <<cli, arch, disk, prep, accepted, conn, post, f_buf, exchanged, removed, uploaded>>

\* main.rs:64-86, with prepare_file and archive
Prepare ==
    /\ pc = "prepare"
    /\ \/ /\ recv
          /\ headers' = response_headers(TRUE, <<>>)
          /\ pc' = "incoming"
          /\ UNCHANGED <<status, disk, f_name, is_archive, archived>>
       \/ /\ ~recv
          /\ \E fail \in {"none", "create", "entry"} :
                LET r == prepare_file(enc, paths, disk, fail)
                IN  /\ disk' = r.disk
                    /\ archived' = r.archived
                    /\ IF r.outcome = "return"
                       THEN /\ f_name' = r.f_name
                            /\ is_archive' = r.is_archive
                            /\ headers' = response_headers(FALSE, r.f_name)
                            /\ pc' = "incoming"
                            /\ UNCHANGED status
                       ELSE /\ Exit(IF r.outcome = "exit" THEN "fatal" ELSE "panic")
                            /\ UNCHANGED <<headers, f_name, is_archive>>
    /\ UNCHANGED <<cli, arch, bound, accepted, conn, post, f_buf, exchanged, removed, uploaded>>

\* main.rs:88-89: the next connection, or the error `stream?` returns
Accept ==
    /\ pc = "incoming"
    /\ accepted < MaxConns
    /\ \/ \E r \in Requests :
            /\ accepted' = accepted + 1
            /\ req' = Meant(r)
            /\ stream' = r.bytes
            /\ sock' = <<>>
            /\ pc' = "read_line"
            /\ UNCHANGED <<status, start_line>>
       \/ Exit("err") /\ UNCHANGED <<accepted, conn>>
    /\ UNCHANGED <<cli, arch, disk, bound, prep, post, f_buf, exchanged, removed, uploaded>>

\* main.rs:90-92: read_line, `?`
ReadLine ==
    /\ pc = "read_line"
    /\ \/ /\ is_utf8(read_line(stream))
          /\ start_line' = read_line(stream)
          /\ stream' = Drop(stream, Len(read_line(stream)))
          /\ pc' = "dispatch"
          /\ UNCHANGED status
       \* read_line returns Err(InvalidData) for bytes that are not UTF-8 and
       \* leaves the String as it was
       \/ /\ ~is_utf8(read_line(stream))
          /\ stream' = Drop(stream, Len(read_line(stream)))
          /\ Exit("err")
          /\ UNCHANGED start_line
       \/ Exit("err") /\ UNCHANGED <<start_line, stream>>
    /\ UNCHANGED <<cli, arch, disk, bound, prep, accepted, req, sock, post, f_buf, exchanged,
                   removed, uploaded>>

\* main.rs:94-99: GET in receive mode answers with the upload form; the loop
\* goes on to the next connection
GetRecv ==
    /\ pc = "dispatch"
    /\ start_line = GET_LINE
    /\ recv
    /\ \/ /\ sock' = sock \o join(headers, CRLF) \o send_html
          /\ pc' = "incoming"
          /\ EndOfIteration
          /\ UNCHANGED status
       \/ Exit("err") /\ UNCHANGED <<sock, req, stream, start_line>>
       \/ Exit("err") /\ sock' = sock \o join(headers, CRLF)
                      /\ UNCHANGED <<req, stream, start_line>>
    /\ UNCHANGED <<cli, arch, disk, bound, prep, accepted, post, f_buf,
                   exchanged, removed, uploaded>>

\* main.rs:94-102: GET in send mode writes the head and opens the artifact
GetSend ==
    /\ pc = "dispatch"
    /\ start_line = GET_LINE
    /\ ~recv
    /\ \/ /\ is_file(disk, f_name)
          /\ sock' = sock \o join(headers, CRLF)
          /\ f_buf' = disk[f_name]
          /\ pc' = "copy"
          /\ UNCHANGED status
       \/ Exit("err") /\ UNCHANGED <<sock, f_buf>>
       \/ Exit("err") /\ sock' = sock \o join(headers, CRLF) /\ UNCHANGED f_buf
    /\ UNCHANGED <<cli, arch, disk, bound, prep, accepted, req, stream, start_line, post,
                   exchanged, removed, uploaded>>

\* main.rs:106-117: one turn of the copy loop
CopyChunk ==
    /\ pc = "copy"
    /\ \/ /\ Len(fill_buf(f_buf)) = 0
          /\ exchanged' = "served"
          /\ pc' = after_send
          /\ UNCHANGED <<status, sock, f_buf>>
       \/ /\ Len(fill_buf(f_buf)) > 0
          /\ sock' = sock \o fill_buf(f_buf)
          /\ f_buf' = consume(f_buf, Len(fill_buf(f_buf)))
          /\ pc' = "copy"
          /\ UNCHANGED <<status, exchanged>>
       \/ Exit("err") /\ UNCHANGED <<sock, f_buf, exchanged>>
    /\ UNCHANGED <<cli, arch, disk, bound, prep, accepted, req, stream, start_line, post,
                   removed, uploaded>>

\* main.rs:94,119,229: any other request line: nothing is written and the loop
\* goes on to the next connection
OtherLine ==
    /\ pc = "dispatch"
    /\ start_line # GET_LINE
    /\ start_line # POST_LINE
    /\ pc' = "incoming"
    /\ EndOfIteration
    /\ UNCHANGED <<status, cli, arch, disk, bound, prep, accepted, sock, post, f_buf, exchanged,
                   removed, uploaded>>

\* main.rs:119-149: the request headers of a POST
PostHeaders ==
    /\ pc = "dispatch"
    /\ start_line = POST_LINE
    /\ LET h == take_headers(stream, <<>>)
           cl == header_content_length(h.lines)
       IN  \/ /\ cl > 0
              /\ content_length' = cl
              /\ boundary' = header_boundary(h.lines)
              /\ stream' = h.rest
              /\ pc' = "post_part"
              /\ UNCHANGED status
           \/ /\ cl = 0
              /\ content_length' = cl
              /\ boundary' = header_boundary(h.lines)
              /\ stream' = h.rest
              /\ pc' = "cleanup"
              /\ UNCHANGED status
           \/ /\ cl = -1
              /\ Exit("panic")
              /\ UNCHANGED <<content_length, boundary, stream>>
    /\ UNCHANGED <<cli, arch, disk, bound, prep, accepted, req, sock, start_line, filename,
                   bytes_consumed, filesize, buffer, f_buf, exchanged, removed, uploaded>>

\* main.rs:165-188: the header lines of the MIME part
PostPart ==
    /\ pc = "post_part"
    /\ LET r == part_loop(stream, <<>>, 0)
       IN  \/ /\ ~r.hang
              /\ filename' = r.filename
              /\ bytes_consumed' = r.bytes_consumed
              /\ stream' = r.rest
              /\ pc' = "post_size"
              /\ UNCHANGED status
           \/ /\ r.hang
              /\ pc' = "hang"
              /\ UNCHANGED <<status, filename, bytes_consumed, stream>>
           \/ Exit("err") /\ UNCHANGED <<filename, bytes_consumed, stream>>
    /\ UNCHANGED <<cli, arch, disk, bound, prep, accepted, req, sock, start_line, content_length,
                   boundary, filesize, buffer, f_buf, exchanged, removed, uploaded>>

\* main.rs:198: usize subtraction.  When it overflows, a build with overflow
\* checks panics and a build without them wraps.
PostSize ==
    /\ pc = "post_size"
    /\ LET n == payload_length(content_length, bytes_consumed, boundary)
       IN  \/ /\ n >= 0
              /\ filesize' = n
              /\ pc' = "post_read"
              /\ UNCHANGED status
           \/ /\ n < 0
              /\ Exit("panic")
              /\ UNCHANGED filesize
           \/ /\ n < 0
              /\ filesize' = n + USIZE_MOD
              /\ pc' = "post_read"
              /\ UNCHANGED status
    /\ UNCHANGED <<cli, arch, disk, bound, prep, accepted, conn, content_length, boundary,
                   filename, bytes_consumed, buffer, f_buf, exchanged, removed, uploaded>>

\* main.rs:199-200: vec![0; filesize] panics above isize::MAX; read_exact
\* fails when the connection ends before filesize bytes arrived
PostRead ==
    /\ pc = "post_read"
    /\ \/ /\ filesize > ISIZE_MAX
          /\ Exit("panic")
          /\ UNCHANGED <<buffer, stream>>
       \/ /\ filesize <= ISIZE_MAX
          /\ ~read_exact(stream, filesize).ok
          /\ Exit("err")
          /\ stream' = read_exact(stream, filesize).rest
          /\ UNCHANGED buffer
       \/ /\ filesize <= ISIZE_MAX
          /\ read_exact(stream, filesize).ok
          /\ buffer' = read_exact(stream, filesize).buf
          /\ stream' = read_exact(stream, filesize).rest
          /\ pc' = "post_write"
          /\ UNCHANGED status
    /\ UNCHANGED <<cli, arch, disk, bound, prep, accepted, req, sock, start_line, content_length,
                   boundary, filename, bytes_consumed, filesize, f_buf, exchanged, removed,
                   uploaded>>

\* main.rs:202-207: the existence test and File::create
PostWrite ==
    /\ pc = "post_write"
    /\ \/ /\ ~upload_allowed(disk, filename)
          /\ pc' = "post_respond"
          /\ UNCHANGED <<status, disk, uploaded>>
       \/ /\ upload_allowed(disk, filename)
          /\ disk' = create(disk, filename, <<>>)
          /\ uploaded' = uploaded \cup {filename}
          /\ pc' = after_create
          /\ UNCHANGED status
       \/ /\ upload_allowed(disk, filename)
          /\ Exit("err")
          /\ UNCHANGED <<disk, uploaded>>
    /\ UNCHANGED <<cli, arch, bound, prep, accepted, conn, post, f_buf, exchanged, removed>>

\* main.rs:208: f.write_all(&buffer)?
PostWriteAll ==
    /\ pc = "post_write_all"
    /\ \/ /\ disk' = create(disk, filename, buffer)
          /\ pc' = "post_flush"
          /\ UNCHANGED status
       \/ Exit("err") /\ UNCHANGED disk
    /\ UNCHANGED <<cli, arch, bound, prep, accepted, conn, post, f_buf, exchanged, removed,
                   uploaded>>

\* main.rs:209-211: f.flush()?
PostFlush ==
    /\ pc = "post_flush"
    /\ \/ pc' = "post_respond" /\ UNCHANGED status
       \/ Exit("err")
    /\ UNCHANGED <<cli, arch, disk, bound, prep, accepted, conn, post, f_buf, exchanged,
                   removed, uploaded>>

\* main.rs:214-228
PostRespond ==
    /\ pc = "post_respond"
    /\ \/ /\ sock' = sock \o receipt_bytes(filename, filesize)
          /\ exchanged' = "received"
          /\ pc' = after_receipt
          /\ UNCHANGED status
       \/ Exit("err") /\ UNCHANGED <<sock, exchanged>>
    /\ UNCHANGED <<cli, arch, disk, bound, prep, accepted, req, stream, start_line, post, f_buf,
                   removed, uploaded>>

\* main.rs:232-237
Cleanup ==
    /\ pc = "cleanup"
    /\ \/ /\ cleanup_removes(is_archive)
          /\ disk' = remove_file(disk, f_name)
          /\ removed' = removed + 1
       \/ /\ ~cleanup_removes(is_archive)
          /\ UNCHANGED <<disk, removed>>
    /\ Exit("ok")
    /\ UNCHANGED <<cli, arch, bound, prep, accepted, conn, post, f_buf, exchanged, uploaded>>

Next ==
    \/ Bind
    \/ Prepare
    \/ Accept
    \/ ReadLine
    \/ GetRecv
    \/ GetSend
    \/ CopyChunk
    \/ OtherLine
    \/ PostHeaders
    \/ PostPart
    \/ PostSize
    \/ PostRead
    \/ PostWrite
    \/ PostWriteAll
    \/ PostFlush
    \/ PostRespond
    \/ Cleanup

Spec == Init /\ [][Next]_vars

TypeOK ==
    /\ pc \in {"bind", "prepare", "incoming", "read_line", "dispatch", "copy", "post_part",
               "post_size", "post_read", "post_write", "post_write_all", "post_flush",
               "post_respond", "cleanup",
               "exited", "hang"}
    /\ status \in {"running", "ok", "err", "fatal", "panic"}
    /\ (pc = "exited") = (status # "running")
    /\ accepted \in 0..MaxConns
    /\ filesize \in 0..(USIZE_MOD - 1)

(***************************************************************************)
(* archive (main.rs:300-396) step by step, called as prepare_file calls it.*)
(***************************************************************************)
MaxArchivePaths == 3
\* the paths archive is called with: those of the command line, the file
\* "a/r", whose base name is that of "r", and the file "a=b"
ArchivePool == PathPool \cup {P_CHILD, P_EQUALS}
ArchivePathLists == UNION {[1..n -> ArchivePool] : n \in 1..MaxArchivePaths}
\* archive's parameter temp_file, as prepare_file makes it (main.rs:259-266)
temp_file == temp_file_name(enc)
\* the byte that stands for the encoding at the head of the container
container_tag(encoding) == <<IF encoding = "Tgz" THEN "T" ELSE "Z">>

\* an archive that never finds itself empty
no_content_never(found) == FALSE
\* main.rs:388: `if !has_files`
no_content(found) == ~found

ArchiveInit ==
    /\ pc = "archive"
    /\ status = "running"
    /\ recv = FALSE
    /\ enc \in Encodings
    /\ paths \in ArchivePathLists
    \* prepare_file calls archive for several paths or for one directory
    \* (main.rs:283)
    /\ Len(paths) > 1 \/ is_dir(paths[1])
    /\ \E n \in 0..MaxFileLen : disk0 = InitialDisk(n)
    /\ disk = disk0
    /\ bound = TRUE
    /\ headers = <<>>
    /\ f_name = <<>>
    /\ is_archive = FALSE
    /\ archived = TRUE
    /\ accepted = 0
    /\ req = NoRequest
    /\ stream = <<>>
    /\ sock = <<>>
    /\ start_line = <<>>
    /\ content_length = 0
    /\ boundary = <<>>
    /\ filename = <<>>
    /\ bytes_consumed = 0
    /\ filesize = 0
    /\ buffer = <<>>
    /\ f_buf = <<>>
    /\ exchanged = "none"
    /\ removed = 0
    /\ uploaded = {}
    /\ i = 0
    /\ has_files = FALSE
    /\ container = <<>>

\* archive returns Ok ("ok") or Err ("err"), panics, or calls process::exit
\* ("fatal")
Return(how) == pc' = "returned" /\ status' = how

\* main.rs:301-302
ArchiveCreate ==
    /\ pc = "archive"
    /\ \/ disk' = create(disk, temp_file, <<>>) /\ pc' = "archive_loop" /\ UNCHANGED status
       \/ Return("err") /\ UNCHANGED disk
    /\ UNCHANGED <<cli, arch, bound, prep, accepted, conn, post, f_buf, exchanged, removed,
                   uploaded>>

\* main.rs:310-331 and 342-384: one turn of the loop over the paths
ArchiveEntry ==
    /\ pc = "archive_loop"
    /\ i < Len(paths)
    /\ LET path == paths[i + 1]
           valid == is_file(disk, path) \/ is_dir(path)
       IN  \/ /\ container' = container \o path_entries(disk, path, i)
              /\ has_files' = (has_files \/ valid)
              /\ i' = i + 1
              /\ UNCHANGED <<pc, status>>
           \/ /\ valid
              /\ Return(IF enc = "Tgz" /\ is_dir(path) THEN "panic" ELSE "err")
              /\ UNCHANGED arch
    /\ UNCHANGED <<cli, disk, bound, prep, accepted, conn, post, f_buf, exchanged, removed,
                   uploaded>>

\* main.rs:333 and 385: finish writes the container out
ArchiveFinish ==
    /\ pc = "archive_loop"
    /\ i = Len(paths)
    /\ \/ /\ disk' = create(disk, temp_file, container_tag(enc) \o container_bytes(container))
          /\ pc' = "archive_check"
          /\ UNCHANGED status
       \/ Return("err") /\ UNCHANGED disk
    /\ UNCHANGED <<cli, arch, bound, prep, accepted, conn, post, f_buf, exchanged, removed,
                   uploaded>>

\* main.rs:388-395
ArchiveCheck ==
    /\ pc = "archive_check"
    /\ \/ no_content(has_files) /\ disk' = remove_file(disk, temp_file) /\ Return("fatal")
       \/ no_content(has_files) /\ Return("err") /\ UNCHANGED disk
       \/ ~no_content(has_files) /\ Return("ok") /\ UNCHANGED disk
    /\ UNCHANGED <<cli, arch, bound, prep, accepted, conn, post, f_buf, exchanged, removed,
                   uploaded>>

ArchiveNext ==
    \/ ArchiveCreate
    \/ ArchiveEntry
    \/ ArchiveFinish
    \/ ArchiveCheck

ArchiveSpec == ArchiveInit /\ [][ArchiveNext]_vars

\* the loop above computes what the operator archive, which Prepare uses, does
ArchiveAgrees ==
    (pc = "returned" /\ status \in {"ok", "fatal"}) =>
        LET a == archive(temp_file, enc, paths, disk0, "none")
        IN  /\ disk = a.disk
            /\ has_files = a.has_files
            /\ (status = "ok") = (a.outcome = "ok")
            /\ container = archive_entries(disk0, paths, Len(paths))

(***************************************************************************)
(* Properties.                                                             *)
(***************************************************************************)
\* prepare_file has run (send mode): the listener is bound and main is past
\* line 72
PrepareDone == ~recv /\ bound /\ pc # "prepare"
\* prepare_file ended in the panic of archive(...).unwrap()
PreparePanicked == status = "panic" /\ accepted = 0
\* the kinds of the command-line paths when the process started
OneFile == Len(paths) = 1 /\ is_file(disk0, paths[1])
ConfigError == Len(paths) = 0 \/ (Len(paths) = 1 /\ ~exists(disk0, paths[1]))
SomeValidPath == \E k \in 1..Len(paths) : exists(disk0, paths[k])
\* main is handling the body of a POST
InPost ==
    pc \in {"post_part", "post_size", "post_read", "post_write", "post_write_all",
            "post_flush", "post_respond"}

\* C1: once an exchange has completed (the artifact was streamed to a GET in
\* send mode, or an upload was ingested and answered), no step accepts a
\* connection or reads from one: every later step is cleanup or the exit.
DoneIsTerminal ==
    [][exchanged # "none" =>
          /\ accepted' = accepted
          /\ stream' = stream
          /\ sock' = sock
          /\ pc' \in {"cleanup", "exited"}]_vars
\* an artifact was served, the process has ended, and the listener could have
\* handed out another connection
DoneIsTerminalWitness ==
    pc = "exited" /\ status = "ok" /\ exchanged = "served" /\ accepted < MaxConns

\* C2: the serving path is entered only for a GET in send mode and the
\* receiving path only for a POST in receive mode; in send mode a POST creates
\* no file and never counts as the completed exchange.
ModeGating ==
    /\ (pc = "copy" \/ exchanged = "served") => (~recv /\ start_line = GET_LINE)
    /\ (InPost \/ exchanged = "received" \/ uploaded # {}) => recv

\* C3: in send mode the process accepts exactly one connection in its lifetime.
SendModeOneConnection == ~recv => accepted <= 1

\* C4: when archive creation succeeded, the temporary archive is deleted exactly
\* once and is not on disk once the process has ended, however it ended.
TempArchiveRemovedAtExit ==
    (pc = "exited" /\ is_archive) => (removed = 1 /\ ~is_file(disk, f_name))

\* C5: when the path list is empty, or the single path is neither a file nor a
\* directory, the process exits with a fatal error and the listening socket was
\* never bound.
ConfigErrorBeforeBind ==
    (~recv /\ ConfigError /\ status = "fatal") => ~bound

NonTemporaryUntouched ==
    /\ (PrepareDone /\ ~is_archive /\ f_name # <<>>) =>
          (is_file(disk, f_name) /\ disk[f_name] = disk0[f_name])
    /\ removed > 0 => is_archive
\* the file is served directly, an upload named like it was answered, and the
\* uploaded bytes differ from the file's
NonTemporaryUntouchedWitness ==
    /\ PrepareDone /\ ~is_archive /\ f_name = P_FILE
    /\ pc = "exited" /\ exchanged = "received"
    /\ filename = P_FILE /\ buffer # disk0[P_FILE]

\* C8: in send mode the answer to `GET / HTTP/1.1` is the status line, the
\* Content-Type and Content-Disposition lines, each ended by CRLF, one empty
\* line, then exactly the artifact's bytes; then the handler is done.
SendGetResponse ==
    (exchanged = "served" /\ pc = "cleanup") =>
        /\ ~recv /\ start_line = GET_LINE
        /\ sock = OK_200 \o CRLF
                  \o CONTENT_TYPE_OCTET \o CRLF
                  \o CONTENT_DISPOSITION_ATTACHMENT \o f_name \o <<"\"">> \o CRLF
                  \o CRLF
                  \o disk[f_name]
\* a file one byte longer than the copy buffer was served
SendGetResponseWitness ==
    /\ exchanged = "served" /\ pc = "cleanup"
    /\ f_name = P_FILE /\ Len(disk[P_FILE]) = BUF_SIZE + 1

\* C9: for a well-formed single-part body whose Content-Length is its true
\* length, the payload length computed is the payload's, the bytes read are the
\* payload, and the filename recorded is the one of the Content-Disposition line.
MultipartExtractionExact ==
    (recv /\ req.kind = "upload" /\ pc = "post_write") =>
        /\ filesize = Len(req.payload)
        /\ buffer = req.payload
        /\ filename = req.fname

\* the length and the bytes alone (the part of C9 the code does satisfy)
PayloadExact ==
    (req.kind = "upload" /\ pc = "post_write") =>
        (filesize = Len(req.payload) /\ buffer = req.payload)

\* C10: the computed payload length is never a wrapped value: when the declared
\* length is smaller than the part headers consumed plus the boundary plus 8,
\* the exchange ends in an error, no buffer is sized from a wrapped value, no
\* file is written and no receipt is sent.
PayloadLengthNeverWraps ==
    /\ (recv /\ pc = "post_read") =>
          filesize = payload_length(content_length, bytes_consumed, boundary)
    /\ (recv /\ bytes_consumed > 0 /\ pc # "post_size"
        /\ payload_length(content_length, bytes_consumed, boundary) < 0) =>
          /\ pc \in {"post_read", "exited"}
          /\ status # "ok"
          /\ uploaded = {} /\ sock = <<>> /\ exchanged = "none"

\* C11: when the filename of an upload names a file or directory that exists,
\* nothing on disk changes during the exchange: that file keeps its bytes and
\* no other file is created, whatever the payload.
NoOverwriteOnConflict ==
    (recv /\ req.kind = "upload" /\ exists(disk0, req.fname)) =>
        (disk = disk0 /\ uploaded = {})

\* the refusal as the code makes it, on the recorded filename (the part of C11
\* the code does satisfy)
NoOverwriteOfRecordedName ==
    (recv /\ pc \in {"post_respond", "cleanup", "exited"} /\ exists(disk0, filename)) =>
        (disk = disk0 /\ uploaded = {})

\* archive was handed a list in which no entry is a file or a directory
NoValidEntry == \A k \in 1..Len(paths) : ~exists(disk0, paths[k])

DistinctFiles ==
    /\ \A k \in 1..Len(paths) : is_file(disk0, paths[k])
    /\ \A j, k \in 1..Len(paths) : j # k => paths[j] # paths[k]
\* no two of them have the same base name
DistinctBaseNames ==
    \A j, k \in 1..Len(paths) : j # k => file_name(paths[j]) # file_name(paths[k])
\* what unpacking the container leaves under a name: the data of the last
\* entry of that name
extracted(entries, name) ==
    LET hits == {k \in 1..Len(entries) : entries[k].name = name}
    IN  entries[CHOOSE k \in hits : \A j \in hits : j <= k].data

\* C13: for a non-empty list of distinct regular files, two of which may have
\* the same base name in different directories, the container holds one entry
\* per path, the entry names are pairwise distinct, and unpacking gives back
\* every file's bytes.
ArchiveComplete ==
    (pc = "returned" /\ status = "ok" /\ DistinctFiles) =>
        /\ Len(container) = Len(paths)
        /\ \A j, k \in 1..Len(container) : j # k => container[j].name # container[k].name
        /\ \A k \in 1..Len(paths) :
              extracted(container, container[k].name) = disk0[paths[k]]

\* the same for lists whose base names are pairwise distinct (the part of C13
\* the code does satisfy)
ArchiveCompleteDistinctNames ==
    (pc = "returned" /\ status = "ok" /\ DistinctFiles /\ DistinctBaseNames) =>
        /\ Len(container) = Len(paths)
        /\ \A j, k \in 1..Len(container) : j # k => container[j].name # container[k].name
        /\ \A k \in 1..Len(paths) :
              extracted(container, container[k].name) = disk0[paths[k]]

\* C14: the copy loop writes the source's bytes in order and nothing else
\* (what is written and what is left to read are together the source), a turn
\* writes at most one chunk, the loop ends exactly on the turn whose read is
\* empty, and then everything was written; the loop of zip_add_file gives
\* back every file's bytes.
StreamCopyExact ==
    [][pc = "copy" =>
          /\ sock \o f_buf = join(headers, CRLF) \o disk[f_name]
          /\ Len(sock') - Len(sock) <= BUF_SIZE
          /\ status' = "running" =>
                /\ (pc' # "copy") = (Len(fill_buf(f_buf)) = 0)
                /\ (pc' # "copy") = (f_buf = <<>>)
                /\ pc' # "copy" => sock' = join(headers, CRLF) \o disk[f_name]
                /\ pc' = "copy" => sock' \o f_buf' = sock \o f_buf
          /\ \A p \in DOMAIN disk : zip_add_file(disk[p], <<>>) = disk[p]]_vars
\* a file of exactly one chunk was copied and the next read is the empty one
StreamCopyExactWitness ==
    /\ pc = "copy" /\ f_buf = <<>>
    /\ f_name = P_FILE /\ Len(disk[P_FILE]) = BUF_SIZE

\* the connection sent a POST that declares Content-Length: 0 or no length
DeclaresNoBody == req.kind \in {"zero_length", "no_length"}

\* C15: in receive mode, once the headers of a POST that declares a length of
\* 0, or none, are parsed, the exchange is over: no byte of the body is read,
\* nothing is written to the connection, no file is created, changed or
\* removed, and the handler goes to cleanup and a normal return.
ZeroLengthPostEnds ==
    (recv /\ DeclaresNoBody /\ pc \notin {"read_line", "dispatch"} /\ status # "err") =>
        /\ pc \in {"cleanup", "exited"}
        /\ status \in {"running", "ok"}
        /\ content_length = 0
        /\ stream = BadBody
        /\ sock = <<>> /\ exchanged = "none"
        /\ disk = disk0 /\ uploaded = {} /\ removed = 0
\* a POST without a Content-Length line, sent with a body, ended the process
\* normally
ZeroLengthPostEndsWitness ==
    /\ recv /\ req.kind = "no_length" /\ stream = BadBody
    /\ pc = "exited" /\ status = "ok"

ShortReadFatal ==
    [][(pc = "post_read" /\ Len(stream) < filesize) =>
          /\ pc' = "exited" /\ status' \in {"err", "panic"}
          /\ disk' = disk /\ uploaded' = uploaded /\ uploaded = {}
          /\ sock' = sock /\ sock = <<>>
          /\ exchanged' = "none" /\ buffer' = <<>>]_vars
\* the peer closed one byte before the end of the payload it declared
ShortReadFatalWitness ==
    /\ recv /\ req.kind = "short_read"
    /\ pc = "exited" /\ status = "err"
    /\ filesize = MaxPayload /\ filesize <= ISIZE_MAX
    /\ disk = disk0 /\ sock = <<>>

\* main is creating, writing or flushing the upload's file
WritingUpload == pc \in {"post_write", "post_write_all", "post_flush"}

\* C18: while the upload's file is being created, written and flushed no byte
\* has been written to the connection; the receipt is written only after that,
\* when the file this upload created holds the whole payload (or, on a
\* conflict, when nothing was created); and when creating, writing or flushing
\* fails the process ends with nothing written to the connection.
DurableBeforeReceipt ==
    [][/\ WritingUpload => (sock = <<>> /\ exchanged = "none")
       /\ (start_line = POST_LINE /\ sock' # sock) =>
             /\ pc = "post_respond"
             /\ \/ /\ filename \in uploaded
                   /\ disk[filename] = buffer /\ Len(buffer) = filesize
                \/ /\ filename \notin uploaded
                   /\ exists(disk, filename) /\ uploaded = {}
             /\ disk' = disk
       /\ (WritingUpload /\ status' = "err") =>
             (pc' = "exited" /\ sock' = <<>> /\ exchanged' = "none")]_vars
\* an upload of MaxPayload bytes under a new name was written and answered
DurableBeforeReceiptWitness ==
    /\ recv /\ exchanged = "received"
    /\ filename \in uploaded /\ filename \notin DOMAIN disk0
    /\ Len(buffer) = MaxPayload /\ disk[filename] = buffer

\* main.rs:94 and 119: the line is neither of the two request lines
NotARequestLine(line) == line # GET_LINE /\ line # POST_LINE

\* C19: when the first line read from a connection is neither the GET nor the
\* POST line, reading it and acting on it write nothing to the connection and
\* create, change or remove no file, and in receive mode the handler goes on
\* to await the next connection.
OtherLineIgnored ==
    [][/\ (pc = "read_line" /\ NotARequestLine(read_line(stream)) /\ stream' # stream) =>
             /\ sock' = sock /\ disk' = disk
             /\ recv => (pc' = "dispatch" /\ status' = "running")
       /\ (pc = "dispatch" /\ NotARequestLine(start_line)) =>
             /\ sock' = sock /\ sock = <<>>
             /\ disk' = disk /\ uploaded' = uploaded /\ removed' = removed
             /\ recv => (pc' = "incoming" /\ status' = "running")]_vars

\* the same for first lines that are UTF-8 text (the part of C19 the code does
\* satisfy)
OtherTextLineIgnored ==
    [][/\ (pc = "read_line" /\ NotARequestLine(read_line(stream)) /\ stream' # stream
           /\ is_utf8(read_line(stream))) =>
             /\ sock' = sock /\ disk' = disk
             /\ recv => (pc' = "dispatch" /\ status' = "running")
       /\ (pc = "dispatch" /\ NotARequestLine(start_line)) =>
             /\ sock' = sock /\ sock = <<>>
             /\ disk' = disk /\ uploaded' = uploaded /\ removed' = removed
             /\ recv => (pc' = "incoming" /\ status' = "running")]_vars

\* this step ends the process
Terminates == status = "running" /\ status' # "running"
\* ... because a call on the listener or the connection failed (`?` on accept,
\* read or write), no byte of the connection having been read by the step
IoFailure == status' = "err" /\ stream' = stream

\* C20: in receive mode the process ends only while it handles a POST (a
\* failing socket call aside); every `GET / HTTP/1.1` is answered with the
\* status line, an empty line and the upload form, after which the handler
\* awaits the next connection with no file created; at most one upload file is
\* written in the process's lifetime.
RecvEndsOnlyByPost ==
    [][recv =>
          /\ (Terminates /\ ~IoFailure) => start_line = POST_LINE
          /\ (pc = "dispatch" /\ start_line = GET_LINE /\ ~IoFailure) =>
                /\ sock' = OK_200 \o CRLF \o CRLF \o send_html
                /\ pc' = "incoming" /\ status' = "running"
                /\ disk' = disk /\ uploaded' = uploaded /\ uploaded = {}
                /\ exchanged' = "none"
          /\ Cardinality(uploaded') <= 1
          /\ uploaded' # {} => start_line = POST_LINE]_vars

\* the same, the read of a first line that is not UTF-8 set aside (the part of
\* C20 the code does satisfy)
RecvEndsOnlyByPostOrBadText ==
    [][recv =>
          /\ (Terminates /\ ~IoFailure) =>
                (start_line = POST_LINE
                 \/ (pc = "read_line" /\ ~is_utf8(read_line(stream))))
          /\ (pc = "dispatch" /\ start_line = GET_LINE /\ ~IoFailure) =>
                /\ sock' = OK_200 \o CRLF \o CRLF \o send_html
                /\ pc' = "incoming" /\ status' = "running"
                /\ disk' = disk /\ uploaded' = uploaded /\ uploaded = {}
                /\ exchanged' = "none"
          /\ Cardinality(uploaded') <= 1
          /\ uploaded' # {} => start_line = POST_LINE]_vars
\* two GETs were answered in receive mode and the handler awaits a third
\* connection
TwoGetsAnswered ==
    /\ recv /\ pc = "incoming" /\ accepted = MaxConns
    /\ sock = OK_200 \o CRLF \o CRLF \o send_html

====
